---------------------------- MODULE Spec2Model ----------------------------
(***************************************************************************)
(* Drone fleet dashboard: the simulation core of App (drone movement tick, *)
(* alert generation, dispatch, settle timeout, metrics, activity log) and  *)
(* the nearest-drone queries of StatusPanel and DroneScene3D.              *)
(*                                                                         *)
(* Units.  Coordinates are integers in units of 0.0001 degree, taken       *)
(* relative to lat 33.4130 / lng -111.9420, so the tick's constants        *)
(* 0.0003, 0.0002 and 0.0002 are 3, 2 and 2.  The simulation is run on the *)
(* drones' and alerts' longitudes (all latitudes 0): on one line the       *)
(* square root of dLat^2 + dLng^2 and the quotient speed / distance are    *)
(* exact in integers.  The nearest-drone queries are also run on           *)
(* two-dimensional inputs, where Math.sqrt rounds.                         *)
(* Time is in milliseconds since mount; battery in thousandths of a        *)
(* percent; angles in milliradians.                                        *)
(***************************************************************************)
EXTENDS Integers, Sequences, FiniteSets, TLC

VARIABLES
  drones,             \* useState<Drone[]>: the drone list, in roster order
  alert,              \* useState<Alert | null>
  respondingDroneId,  \* useState<string | null>
  logEntries,         \* useState<LogEntry[]>
  droneArrived,       \* useState(false)
  alertResolved,      \* useState(false)
  dispatchStatus,     \* useState: 'idle' | 'en_route' | 'on_scene'
  metrics,            \* useState<Metrics>
  responseTimeFlash,  \* useState(false)
  dispatchStartTime,  \* useRef<number | null>
  now,                \* milliseconds since mount: the instant of the next tick
  alertTimer,         \* due time of the alert-generation timeout, or NoTime
  patrolLogDue,       \* due time of the next patrol-log interval firing
  settleTimers,       \* pending 2000 ms settle timeouts: set of [due, droneId]
  flashTimers,        \* pending 1000 ms flash-clear timeouts: set of due times
  arrivalLogTimers,   \* pending 0 ms arrival-log timeouts: sequence of messages
  nearestResult,      \* what the two nearest-drone queries last returned
  lastOp,             \* history: the handler that ran last, with its arguments
  marks,              \* history: arrival effects counted for the current alert
  dispatchedAt,       \* history: when each drone was last dispatched
  lastArrival,        \* history: the last arrival event that recorded a sample
  track,              \* history: per drone, distance at dispatch and ticks since
  useBuildings,       \* the useBuildings hook: its four states and where loadBuildings is
  localStorage,       \* the browser's storage: how it answers, and the item under CACHE_KEY
  loadTrace           \* history: what the running loadBuildings read and was answered

vars == <<drones, alert, respondingDroneId, logEntries, droneArrived,
          alertResolved, dispatchStatus, metrics, responseTimeFlash,
          dispatchStartTime, now, alertTimer, patrolLogDue, settleTimers,
          flashTimers, arrivalLogTimers, nearestResult, lastOp, marks,
          dispatchedAt, lastArrival, track, useBuildings, localStorage, loadTrace>>

hookVars == <<useBuildings, localStorage, loadTrace>>

\* null, for a string, an object and a number
NULL == "null"
NoObject == [null |-> TRUE]
NoTime == 0 - 1

-----------------------------------------------------------------------------
(* Program constants                                                       *)

TickMs == 50
AlertDelayCold == 5000
AlertDelayResolved == 8000
PatrolLogMs == 10000
SettleMs == 2000
FlashMs == 1000
ArrivalThreshold == 2
RespondStep == 3
ReturnStep == 2
BatteryFloor == 20000
BatteryDecrement == 1
TwoPiMrad == 6283

(* Bounds of the model                                                     *)

MaxNow == 15500
Epoch == 1000
MaxD0 == 12
ResponseHorizon == 8000
MaxLat == 1
MaxLng == 2
MaxFleet == 3
LowCharge == 2

\* The draws of the random generators that are explored: alert sites
\* (indexes into asuAlertLocations), alert types, the initial alertsToday.
\* The operator's reaction delays after an alert is raised (one click at each),
\* and the instants without an alert at which handleDispatch is called directly.
AlertSites == {1, 4, 7}
AlertKinds == {"perimeter_breach"}
AlertsTodayStart == {4}
ClickOffsets == {0, 1000, 1900}
QuietCallTimes == {4000}

DateNow == Epoch + now

-----------------------------------------------------------------------------
(* Data: mockData                                                          *)

asuAlertLocations ==
  << [lat |-> 0, lng |-> 78,  name |-> "Hayden Library"],
     [lat |-> 0, lng |-> 58,  name |-> "Memorial Union"],
     [lat |-> 0, lng |-> 94,  name |-> "Old Main"],
     [lat |-> 0, lng |-> 95,  name |-> "Sun Devil Stadium"],
     [lat |-> 0, lng |-> 15,  name |-> "Gammage Auditorium"],
     [lat |-> 0, lng |-> 105, name |-> "Engineering Center"],
     [lat |-> 0, lng |-> 140, name |-> "Rural Road (External)"],
     [lat |-> 0, lng |-> 20,  name |-> "North Perimeter"] >>

initialDrones ==
  << [id |-> "DXD-001", lat |-> 0, lng |-> 95, status |-> "patrolling",
      battery |-> 87000, speed |-> 12, heading |-> 45],
     [id |-> "DXD-002", lat |-> 0, lng |-> 78, status |-> "idle",
      battery |-> 95000, speed |-> 0, heading |-> 0],
     [id |-> "DXD-003", lat |-> 0, lng |-> 75, status |-> "patrolling",
      battery |-> 72000, speed |-> 12, heading |-> 180],
     [id |-> "DXD-004", lat |-> 0, lng |-> 58, status |-> "idle",
      battery |-> 64000, speed |-> 0, heading |-> 0] >>

DroneIds == {initialDrones[i].id : i \in 1..Len(initialDrones)}

\* droneConfigs: speed in hundredths of rad/s, offset in milliradians
droneConfigs ==
  [id \in DroneIds |->
     CASE id = "DXD-001" -> [mode |-> "patrol", centerLat |-> 0, centerLng |-> 95,
                             radius |-> 12, speed |-> 10, offset |-> 0]
       [] id = "DXD-002" -> [mode |-> "idle", lat |-> 0, lng |-> 78]
       [] id = "DXD-003" -> [mode |-> "patrol", centerLat |-> 0, centerLng |-> 75,
                             radius |-> 10, speed |-> 8, offset |-> 3142]
       [] id = "DXD-004" -> [mode |-> "idle", lat |-> 0, lng |-> 58]]

-----------------------------------------------------------------------------
(* Arithmetic                                                              *)

RECURSIVE FloorSqrt(_, _, _)
\* the largest r in lo..hi with r * r <= n (binary search)
FloorSqrt(n, lo, hi) ==
  IF lo >= hi THEN lo
  ELSE LET mid == (lo + hi + 1) \div 2
       IN  IF mid * mid <= n THEN FloorSqrt(n, mid, hi)
           ELSE FloorSqrt(n, lo, mid - 1)

\* Math.sqrt: correctly rounded to the nearest representable value (here:
\* the nearest unit); monotone, and not injective.
Sqrt(n) ==
  LET f == FloorSqrt(n, 0, n)
  IN  IF n - f * f > f THEN f + 1 ELSE f

\* Math.round(a / b) for a >= 0, b > 0: halves round up
RoundDiv(a, b) == (2 * a + b) \div (2 * b)

\* Math.atan2(y, x) * (180 / Math.PI), to the nearest octant
Atan2Deg(y, x) ==
  CASE x = 0 /\ y = 0 -> 0
    [] x = 0 /\ y > 0 -> 90
    [] x = 0 /\ y < 0 -> -90
    [] y = 0 /\ x > 0 -> 0
    [] y = 0 /\ x < 0 -> 180
    [] x > 0 /\ y > 0 -> 45
    [] x > 0 /\ y < 0 -> -45
    [] x < 0 /\ y > 0 -> 135
    [] OTHER -> -135

\* The patrol angle (time * speed + offset) % (2 * PI), time = Date.now() / 1000
PatrolAngle(config) ==
  ((DateNow * config.speed) \div 100 + config.offset) % TwoPiMrad

\* The angle to the nearest half turn (0 or 1 times PI); sine and cosine of it
HalfTurn(angle) == IF angle < 1571 \/ angle >= 4712 THEN 0 ELSE 1
SinH(h) == 0
CosH(h) == IF h = 0 THEN 1 ELSE -1

-----------------------------------------------------------------------------
(* The drone movement tick (setInterval, 50 ms)                            *)

\* distance from a point to a target, as the tick computes it
Distance(lat, lng, targetLat, targetLng) ==
  Sqrt((targetLat - lat) * (targetLat - lat) + (targetLng - lng) * (targetLng - lng))

\* (mutation of StepToward: the ratio taken as step / (2 * distance))
StepTowardHalved(coord, delta, step, distance) == coord + (delta * step) \div (2 * distance)

\* coordinate + delta * ratio, ratio = step / distance
StepToward(coord, delta, step, distance) == coord + (delta * step) \div distance

\* (mutation of IsResponding: the branch taken whenever an alert is active)
IsRespondingAnyStatus(drone, al) == al # NoObject

\* the responding branch is taken for this drone
IsResponding(drone, al) == drone.status = "responding" /\ al # NoObject

\* responding branch: arrived at the alert (distance < 0.0002)
AtAlert(drone, al) ==
  IsResponding(drone, al) /\ Distance(drone.lat, drone.lng, al.lat, al.lng) < ArrivalThreshold

RespondingMove(drone, al) ==
  LET dLat == al.lat - drone.lat
      dLng == al.lng - drone.lng
      distance == Distance(drone.lat, drone.lng, al.lat, al.lng)
  IN  IF distance < ArrivalThreshold
      THEN [drone EXCEPT !.lat = al.lat, !.lng = al.lng, !.speed = 0]
      ELSE [drone EXCEPT !.lat = StepToward(drone.lat, dLat, RespondStep, distance),
                         !.lng = StepToward(drone.lng, dLng, RespondStep, distance),
                         !.speed = 25,
                         !.heading = Atan2Deg(dLng, dLat)]

\* (mutation of ReturningMove: on arrival the status is 'patrolling' whatever
\* the configured mode)
ReturningMoveToPatrol(drone, config) ==
  LET targetLat == IF config.mode = "patrol" THEN config.centerLat ELSE config.lat
      targetLng == IF config.mode = "patrol" THEN config.centerLng ELSE config.lng
      dLat == targetLat - drone.lat
      dLng == targetLng - drone.lng
      distance == Distance(drone.lat, drone.lng, targetLat, targetLng)
  IN  IF distance < ArrivalThreshold
      THEN [drone EXCEPT !.lat = targetLat, !.lng = targetLng,
                         !.status = "patrolling", !.speed = 12]
      ELSE [drone EXCEPT !.lat = StepToward(drone.lat, dLat, ReturnStep, distance),
                         !.lng = StepToward(drone.lng, dLng, ReturnStep, distance),
                         !.speed = 15]

\* returning branch: head for the patrol centre or the landing pad
ReturningMove(drone, config) ==
  LET targetLat == IF config.mode = "patrol" THEN config.centerLat ELSE config.lat
      targetLng == IF config.mode = "patrol" THEN config.centerLng ELSE config.lng
      dLat == targetLat - drone.lat
      dLng == targetLng - drone.lng
      distance == Distance(drone.lat, drone.lng, targetLat, targetLng)
  IN  IF distance < ArrivalThreshold
      THEN [drone EXCEPT !.lat = targetLat, !.lng = targetLng,
                         !.status = IF config.mode = "patrol" THEN "patrolling" ELSE "idle",
                         !.speed = IF config.mode = "patrol" THEN 12 ELSE 0]
      ELSE [drone EXCEPT !.lat = StepToward(drone.lat, dLat, ReturnStep, distance),
                         !.lng = StepToward(drone.lng, dLng, ReturnStep, distance),
                         !.speed = 15]

IdleModeMove(drone, config) ==
  [drone EXCEPT !.status = "idle", !.lat = config.lat, !.lng = config.lng, !.speed = 0]

\* (mutation of PatrolBattery: the decrement without Math.max(20, ...))
PatrolBatteryUnclamped(battery) == battery - BatteryDecrement

\* Math.max(20, drone.battery - 0.001)
PatrolBattery(battery) ==
  IF battery - BatteryDecrement > BatteryFloor THEN battery - BatteryDecrement
  ELSE BatteryFloor

PatrolMove(drone, config) ==
  LET h == HalfTurn(PatrolAngle(config))
  IN  [drone EXCEPT !.status = "patrolling",
                    !.lat = config.centerLat + SinH(h) * config.radius,
                    !.lng = config.centerLng + CosH(h) * config.radius,
                    !.heading = (h * 180) % 360,
                    !.speed = 12,
                    !.battery = PatrolBattery(drone.battery)]

\* (mutation of TickDrone: a 'responding' drone is left alone while there is
\* no alert, instead of falling through to the branches below)
TickDroneHolding(drone, al) ==
  IF IsResponding(drone, al) THEN RespondingMove(drone, al)
  ELSE IF drone.status = "idle" \/ drone.status = "responding" THEN drone
  ELSE IF drone.id \notin DOMAIN droneConfigs THEN drone
  ELSE LET config == droneConfigs[drone.id]
       IN  IF drone.status = "returning" THEN ReturningMove(drone, config)
           ELSE IF config.mode = "idle" THEN IdleModeMove(drone, config)
           ELSE PatrolMove(drone, config)

\* prevDrones.map(drone => ...): the next value of one drone
TickDrone(drone, al) ==
  IF IsResponding(drone, al) THEN RespondingMove(drone, al)
  ELSE IF drone.status = "idle" THEN drone
  ELSE IF drone.id \notin DOMAIN droneConfigs THEN drone
  ELSE LET config == droneConfigs[drone.id]
       IN  IF drone.status = "returning" THEN ReturningMove(drone, config)
           ELSE IF config.mode = "idle" THEN IdleModeMove(drone, config)
           ELSE PatrolMove(drone, config)

-----------------------------------------------------------------------------
(* Helpers of App                                                          *)

\* (mutation of addLogEntry: the newest entry put first)
addLogEntryFirst(log, type, message) == <<[type |-> type, message |-> message]>> \o log

\* addLogEntry: setLogEntries(prev => [...prev, entry])
addLogEntry(log, type, message) == Append(log, [type |-> type, message |-> message])

\* (mutation of AlertEffect: the effect body without its `alert !== null` return)
AlertEffectUnguarded(oldAlert, oldResolved, newAlert, newResolved, timer) ==
  IF newAlert = oldAlert /\ newResolved = oldResolved THEN timer
  ELSE now + (IF newResolved THEN AlertDelayResolved ELSE AlertDelayCold)

\* (mutation of AlertEffect: the cold-start delay whatever alertResolved is)
AlertEffectOneDelay(oldAlert, oldResolved, newAlert, newResolved, timer) ==
  IF newAlert = oldAlert /\ newResolved = oldResolved THEN timer
  ELSE IF newAlert # NoObject THEN NoTime
  ELSE now + AlertDelayCold

\* The alert-generation effect, deps [alert, alertResolved]: when a dep has
\* changed the cleanup clears the pending timeout and the effect body runs
\* again; it arms a new timeout only while alert is null.
AlertEffect(oldAlert, oldResolved, newAlert, newResolved, timer) ==
  IF newAlert = oldAlert /\ newResolved = oldResolved THEN timer
  ELSE IF newAlert # NoObject THEN NoTime
  ELSE now + (IF newResolved THEN AlertDelayResolved ELSE AlertDelayCold)

\* Math.round(newTimes.reduce((a, b) => a + b, 0) / newTimes.length)
RECURSIVE SumSeq(_)
SumSeq(s) == IF s = <<>> THEN 0 ELSE Head(s) + SumSeq(Tail(s))
\* (mutation of AvgTime: the quotient truncated instead of rounded)
AvgTimeTruncated(newTimes) == SumSeq(newTimes) \div Len(newTimes)

AvgTime(newTimes) == RoundDiv(SumSeq(newTimes), Len(newTimes))

\* (mutation of RecordSample: the arrival also counted as an alert)
RecordSampleAndCount(prev, responseTime) ==
  LET newTimes == Append(prev.responseTimes, responseTime)
  IN  [prev EXCEPT !.responseTimes = newTimes, !.avgResponseTime = AvgTime(newTimes),
                   !.alertsToday = @ + 1]

\* setMetrics(prev => ({...prev, responseTimes: newTimes, avgResponseTime: avgTime}))
\* (mutation of RecordSample: the list restarted from the new sample)
RecordSampleAlone(prev, responseTime) ==
  [prev EXCEPT !.responseTimes = <<responseTime>>, !.avgResponseTime = responseTime]

RecordSample(prev, responseTime) ==
  LET newTimes == Append(prev.responseTimes, responseTime)
  IN  [prev EXCEPT !.responseTimes = newTimes, !.avgResponseTime = AvgTime(newTimes)]

\* Math.round((Date.now() - dispatchStartTime.current) / 1000)
ResponseTime(start) == RoundDiv(DateNow - start, 1000)

\* a timeout or interval callback is due and runs before the next tick
TimerDue ==
  \/ alertTimer # NoTime /\ alertTimer <= now
  \/ patrolLogDue <= now
  \/ \E t \in settleTimers : t.due <= now
  \/ \E due \in flashTimers : due <= now
  \/ arrivalLogTimers # <<>>

DroneIndex(ds, droneId) == {i \in 1..Len(ds) : ds[i].id = droneId}

DistanceToAlert(drone, al) == Distance(drone.lat, drone.lng, al.lat, al.lng)

-----------------------------------------------------------------------------
(* Initial state: App mounted, 'System online' logged, timers armed        *)

NoOp == [op |-> "mount", via |-> "timer", droneId |-> NULL, isManual |-> FALSE, ok |-> FALSE]
NoMarks == [logs |-> 0, samples |-> 0, settles |-> 0, dispatches |-> 0, clickedAt |-> NoTime,
            clearedAt |-> NoTime]
NoTrack == [d0 |-> 0, n |-> 0, reached |-> TRUE]

\* everything but the drone list and the alert
\* useBuildings, lines 17-20: nothing loaded yet, the effect has not run
HookMounted ==
  [buildings |-> <<>>, roads |-> <<>>, isLoading |-> TRUE, source |-> "fallback",
   pc |-> "mounted"]

\* getItem answers null
NoItem == [kind |-> "null"]

NoTrace == [read |-> NoItem, readAt |-> NoTime, fetched |-> FALSE, answer |-> NoObject,
            loads |-> 0]

\* the scene's building loader before it runs, with an empty storage; the
\* dashboard's own state does not depend on it
InitHook ==
  /\ useBuildings = HookMounted
  /\ localStorage = [access |-> "ok", item |-> NoItem]
  /\ loadTrace = NoTrace

InitApp ==
  /\ respondingDroneId = NULL
  /\ logEntries = addLogEntry(<<>>, "system", <<"System online", 2>>)
  /\ droneArrived = FALSE
  /\ alertResolved = FALSE
  /\ dispatchStatus = "idle"
  /\ \E n \in AlertsTodayStart :
       metrics = [activeDrones |-> 2, totalDrones |-> Len(initialDrones),
                  avgResponseTime |-> -1, responseTimes |-> <<>>, alertsToday |-> n]
  /\ responseTimeFlash = FALSE
  /\ dispatchStartTime = NoTime
  /\ now = TickMs
  /\ alertTimer = AlertDelayCold
  /\ patrolLogDue = PatrolLogMs
  /\ settleTimers = {}
  /\ flashTimers = {}
  /\ arrivalLogTimers = <<>>
  /\ nearestResult = [panel |-> NoObject, scene |-> NULL, legacy |-> NULL,
                      button |-> FALSE]
  /\ lastOp = NoOp
  /\ marks = NoMarks
  /\ dispatchedAt = [id \in DroneIds |-> NoTime]
  /\ lastArrival = NoObject
  /\ track = [id \in DroneIds |-> NoTrack]

Init ==
  /\ drones = initialDrones
  /\ alert = NoObject
  /\ InitApp
  /\ InitHook

-----------------------------------------------------------------------------
(* Tick: the setInterval callback of the drone movement effect             *)

\* the drones for which this tick runs the arrival side effects: the closure's
\* droneArrived is the value of the last render for every drone of the pass
Arriving(ds, al, arrived) ==
  IF arrived THEN <<>> ELSE SelectSeq(ds, LAMBDA d : AtAlert(d, al))

\* (mutation of SettleTimeouts: the timeouts armed with no delay)
SettleTimeoutsAtOnce(arriving) ==
  {[due |-> now, droneId |-> arriving[i].id] : i \in 1..Len(arriving)}

\* the setTimeout(..., 2000) armed by every drone that runs the arrival side
\* effects; the callback keeps the id of its drone
SettleTimeouts(arriving) ==
  {[due |-> now + SettleMs, droneId |-> arriving[i].id] : i \in 1..Len(arriving)}

Tick ==
  /\ now < MaxNow
  /\ ~TimerDue
  /\ LET arriving == Arriving(drones, alert, droneArrived)
         marked == arriving # <<>>
         sampled == marked /\ dispatchStartTime # NoTime /\ dispatchStartTime # 0
         responseTime == ResponseTime(dispatchStartTime)
     IN  /\ drones' = [i \in 1..Len(drones) |-> TickDrone(drones[i], alert)]
         /\ droneArrived' = (droneArrived \/ marked)
         /\ dispatchStatus' = IF marked THEN "on_scene" ELSE dispatchStatus
         /\ arrivalLogTimers' = arrivalLogTimers \o
              [i \in 1..Len(arriving) |-> <<arriving[i].id, "on scene at", alert.locationName>>]
         /\ metrics' = IF sampled THEN RecordSample(metrics, responseTime) ELSE metrics
         /\ responseTimeFlash' = (responseTimeFlash \/ sampled)
         /\ flashTimers' = IF sampled THEN flashTimers \cup {now + FlashMs} ELSE flashTimers
         /\ dispatchStartTime' = IF sampled THEN NoTime ELSE dispatchStartTime
         /\ settleTimers' = settleTimers \cup SettleTimeouts(arriving)
         /\ marks' = [marks EXCEPT !.samples = @ + (IF sampled THEN 1 ELSE 0),
                                   !.settles = @ + Len(arriving)]
         /\ lastArrival' = IF sampled
                           THEN [droneId |-> arriving[1].id, sample |-> responseTime,
                                 dispatched |-> dispatchedAt[arriving[1].id], at |-> DateNow]
                           ELSE lastArrival
         /\ track' = [id \in DOMAIN track |->
              LET idx == DroneIndex(drones, id)
              IN  IF idx = {} THEN track[id]
                  ELSE LET d == drones[CHOOSE i \in idx : TRUE]
                       IN  IF IsResponding(d, alert) /\ ~track[id].reached
                           THEN [track[id] EXCEPT !.n = @ + 1, !.reached = AtAlert(d, alert)]
                           ELSE track[id]]
  /\ now' = now + TickMs
  /\ lastOp' = [NoOp EXCEPT !.op = "tick"]
  /\ UNCHANGED hookVars
  /\ UNCHANGED <<alert, respondingDroneId, logEntries, alertResolved, alertTimer,
                 patrolLogDue, nearestResult, dispatchedAt>>

-----------------------------------------------------------------------------
(* Nearest-drone queries                                                   *)

TypeError == [error |-> "TypeError: Reduce of empty array with no initial value"]

Pow2(x) == x * x

\* (mutation of PanelCloser: the comparison taken as <=)
PanelCloserOrEqual(drone, nearest, al) ==
  Sqrt(Pow2(drone.lat - al.lat) + Pow2(drone.lng - al.lng))
    <= Sqrt(Pow2(nearest.lat - al.lat) + Pow2(nearest.lng - al.lng))

\* StatusPanel's reduce callback: currentDistance < nearestDistance, on roots
PanelCloser(drone, nearest, al) ==
  Sqrt(Pow2(drone.lat - al.lat) + Pow2(drone.lng - al.lng))
    < Sqrt(Pow2(nearest.lat - al.lat) + Pow2(nearest.lng - al.lng))

\* DroneScene3D's reduce callback: currentDist < nearestDist, on squares
SceneCloser(drone, nearest, al) ==
  Pow2(drone.lat - al.lat) + Pow2(drone.lng - al.lng)
    < Pow2(nearest.lat - al.lat) + Pow2(nearest.lng - al.lng)

RECURSIVE ReduceFrom(_, _, _, _)
ReduceFrom(kind, nearest, rest, al) ==
  IF rest = <<>> THEN nearest
  ELSE LET drone == Head(rest)
           closer == IF kind = "panel" THEN PanelCloser(drone, nearest, al)
                     ELSE SceneCloser(drone, nearest, al)
       IN  ReduceFrom(kind, IF closer THEN drone ELSE nearest, Tail(rest), al)

\* Array.prototype.reduce without an initial value
Reduce(kind, array, al) ==
  IF array = <<>> THEN TypeError
  ELSE ReduceFrom(kind, Head(array), Tail(array), al)

Available(ds) == SelectSeq(ds, LAMBDA d : d.status # "responding")

\* (mutation of findNearestDrone: without the availableDrones.length check)
findNearestDroneUnchecked(ds, al) ==
  IF al = NoObject THEN NoObject ELSE Reduce("panel", Available(ds), al)

\* StatusPanel.findNearestDrone
findNearestDrone(ds, al) ==
  IF al = NoObject THEN NoObject
  ELSE LET availableDrones == Available(ds)
       IN  IF Len(availableDrones) = 0 THEN NoObject
           ELSE Reduce("panel", availableDrones, al)

\* StatusPanel: nearestDrone = alert ? findNearestDrone() : null
nearestDrone(ds, al) == IF al # NoObject THEN findNearestDrone(ds, al) ELSE NoObject

\* DroneScene3D.nearestDroneId (useMemo)
nearestDroneId(ds, al) ==
  IF al = NoObject THEN NULL
  ELSE LET availableDrones == Available(ds)
       IN  IF Len(availableDrones) = 0 THEN NULL
           ELSE LET nearest == Reduce("scene", availableDrones, al)
                IN  IF nearest = TypeError THEN "TypeError" ELSE nearest.id

\* the earlier DroneScene3D.findNearestDroneId (square-root distance)
findNearestDroneId(ds, al) ==
  IF al = NoObject THEN NULL
  ELSE LET availableDrones == Available(ds)
       IN  IF Len(availableDrones) = 0 THEN NULL
           ELSE LET nearest == Reduce("panel", availableDrones, al)
                IN  IF nearest = TypeError THEN "TypeError" ELSE nearest.id

\* StatusPanel: the DISPATCH NEAREST button is rendered
NearestButtonShown(ds, al) ==
  /\ al # NoObject
  /\ nearestDrone(ds, al) # NoObject
  /\ nearestDrone(ds, al) # TypeError
  /\ nearestDrone(ds, al).status # "responding"

\* StatusPanel: canDispatch of a drone row
canDispatch(drone, al, status) ==
  al # NoObject /\ drone.status # "responding" /\ status = "idle"

-----------------------------------------------------------------------------
(* handleDispatch                                                          *)

\* the preconditions the dispatch operation is specified with
DispatchPre(droneId) ==
  /\ alert # NoObject
  /\ \E i \in 1..Len(drones) : drones[i].id = droneId /\ drones[i].status # "responding"

\* (mutation of DispatchedDrones: the dispatch also costs the drone one
\* battery decrement and turns it north)
DispatchedDronesDrained(ds, droneId) ==
  [i \in 1..Len(ds) |->
     IF ds[i].id = droneId
     THEN [ds[i] EXCEPT !.status = "responding", !.speed = 25, !.heading = 0,
                        !.battery = @ - BatteryDecrement]
     ELSE ds[i]]

\* setDrones(prevDrones => prevDrones.map(...)) of handleDispatch
DispatchedDrones(ds, droneId) ==
  [i \in 1..Len(ds) |->
     IF ds[i].id = droneId THEN [ds[i] EXCEPT !.status = "responding", !.speed = 25]
     ELSE ds[i]]

\* (mutation of handleDispatch: without setDroneArrived(false))
handleDispatchKeepsArrived(droneId, isManual, via) ==
  LET found == DroneIndex(drones, droneId)
  IN  /\ logEntries' =
           IF found # {} /\ alert # NoObject
           THEN addLogEntry(logEntries, "dispatch",
                  <<droneId, IF isManual THEN "manually dispatched to" ELSE "dispatched to",
                    alert.locationName>>)
           ELSE logEntries
      /\ respondingDroneId' = droneId
      /\ dispatchStatus' = "en_route"
      /\ droneArrived' = droneArrived
      /\ dispatchStartTime' = DateNow
      /\ drones' = DispatchedDrones(drones, droneId)
      /\ lastOp' = [op |-> "handleDispatch", via |-> via, droneId |-> droneId,
                    isManual |-> isManual, ok |-> DispatchPre(droneId)]
      /\ marks' = [marks EXCEPT !.dispatches = @ + 1, !.clickedAt = DateNow]
      /\ dispatchedAt' = [id \in DOMAIN dispatchedAt |->
                            IF id = droneId THEN DateNow ELSE dispatchedAt[id]]
      /\ track' = [id \in DOMAIN track |->
                     IF id = droneId /\ found # {} /\ alert # NoObject
                     THEN [d0 |-> DistanceToAlert(drones[CHOOSE i \in found : TRUE], alert),
                           n |-> 0, reached |-> FALSE]
                     ELSE track[id]]
      /\ UNCHANGED hookVars
      /\ UNCHANGED <<alert, alertResolved, metrics, responseTimeFlash, now, alertTimer,
                     patrolLogDue, settleTimers, flashTimers, arrivalLogTimers,
                     nearestResult, lastArrival>>

\* handleDispatch(droneId, isManual)
handleDispatch(droneId, isManual, via) ==
  LET found == DroneIndex(drones, droneId)
  IN  /\ logEntries' =
           IF found # {} /\ alert # NoObject
           THEN addLogEntry(logEntries, "dispatch",
                  <<droneId, IF isManual THEN "manually dispatched to" ELSE "dispatched to",
                    alert.locationName>>)
           ELSE logEntries
      /\ respondingDroneId' = droneId
      /\ dispatchStatus' = "en_route"
      /\ droneArrived' = FALSE
      /\ dispatchStartTime' = DateNow
      /\ drones' = DispatchedDrones(drones, droneId)
      /\ lastOp' = [op |-> "handleDispatch", via |-> via, droneId |-> droneId,
                    isManual |-> isManual, ok |-> DispatchPre(droneId)]
      /\ marks' = [marks EXCEPT !.dispatches = @ + 1, !.clickedAt = DateNow]
      /\ dispatchedAt' = [id \in DOMAIN dispatchedAt |->
                            IF id = droneId THEN DateNow ELSE dispatchedAt[id]]
      /\ track' = [id \in DOMAIN track |->
                     IF id = droneId /\ found # {} /\ alert # NoObject
                     THEN [d0 |-> DistanceToAlert(drones[CHOOSE i \in found : TRUE], alert),
                           n |-> 0, reached |-> FALSE]
                     ELSE track[id]]
      /\ UNCHANGED hookVars
      /\ UNCHANGED <<alert, alertResolved, metrics, responseTimeFlash, now, alertTimer,
                     patrolLogDue, settleTimers, flashTimers, arrivalLogTimers,
                     nearestResult, lastArrival>>

\* the operator is at the controls: an alert is shown, one of the modelled
\* reaction delays has passed since it was raised, and no click was made yet
\* at this instant
OperatorMayClick ==
  /\ alert # NoObject
  /\ (DateNow - alert.timestamp) \in ClickOffsets
  /\ marks.clickedAt # DateNow

\* StatusPanel: DISPATCH NEAREST (onDispatch)
ClickDispatchNearest ==
  /\ OperatorMayClick
  /\ NearestButtonShown(drones, alert)
  /\ handleDispatch(nearestDrone(drones, alert).id, FALSE, "ui")

\* DroneScene3D: click on a drone marker (onDispatch)
ClickDroneMarker ==
  /\ OperatorMayClick
  /\ \E i \in 1..Len(drones) :
       /\ alert # NoObject /\ drones[i].status # "responding"
       /\ handleDispatch(drones[i].id, FALSE, "ui")

\* StatusPanel: the Dispatch button of a drone row (onDispatchManual)
ClickDispatchManual ==
  /\ OperatorMayClick
  /\ \E i \in 1..Len(drones) :
       /\ canDispatch(drones[i], alert, dispatchStatus)
       /\ handleDispatch(drones[i].id, TRUE, "ui")

\* handleDispatch called directly, with any arguments and in any state
CallHandleDispatch ==
  /\ \/ alert # NoObject /\ (DateNow - alert.timestamp) \in ClickOffsets
     \/ alert = NoObject /\ now \in QuietCallTimes
  /\ \E droneId \in DroneIds \cup {"DXD-999"}, isManual \in BOOLEAN :
       handleDispatch(droneId, isManual, "call")

-----------------------------------------------------------------------------
(* Timer callbacks                                                         *)

\* mockData.generateAlert, for a drawn location index and alert type
generateAlert(site, kind) ==
  [id |-> DateNow, lat |-> asuAlertLocations[site].lat, lng |-> asuAlertLocations[site].lng,
   type |-> kind, severity |-> "high", timestamp |-> DateNow,
   locationName |-> asuAlertLocations[site].name]

\* the setTimeout callback of the alert-generation effect
AlertTimerFire ==
  /\ alertTimer # NoTime /\ alertTimer <= now
  /\ \E site \in AlertSites, kind \in AlertKinds :
       LET newAlert == generateAlert(site, kind)
       IN  /\ alert' = newAlert
           /\ alertResolved' = FALSE
           /\ logEntries' = addLogEntry(logEntries, "alert", <<kind, newAlert.locationName>>)
           /\ metrics' = [metrics EXCEPT !.alertsToday = @ + 1]
           /\ alertTimer' = AlertEffect(alert, alertResolved, newAlert, FALSE, NoTime)
  /\ marks' = NoMarks
  /\ lastOp' = [NoOp EXCEPT !.op = "alertTimer", !.ok = (alert = NoObject)]
  /\ UNCHANGED hookVars
  /\ UNCHANGED <<drones, respondingDroneId, droneArrived, dispatchStatus,
                 responseTimeFlash, dispatchStartTime, now, patrolLogDue, settleTimers,
                 flashTimers, arrivalLogTimers, nearestResult, dispatchedAt,
                 lastArrival, track>>

\* the setInterval callback of the patrol-log effect
PatrolLogFire ==
  /\ patrolLogDue <= now
  /\ LET patrollingDrones == SelectSeq(drones, LAMBDA d : d.status = "patrolling")
     IN  IF Len(patrollingDrones) > 0
         THEN \E k \in 1..Len(patrollingDrones) :
                logEntries' = addLogEntry(logEntries, "patrol",
                                <<patrollingDrones[k].id, "patrolling">>)
         ELSE logEntries' = logEntries
  /\ patrolLogDue' = patrolLogDue + PatrolLogMs
  /\ lastOp' = [NoOp EXCEPT !.op = "patrolLog"]
  /\ UNCHANGED hookVars
  /\ UNCHANGED <<drones, alert, respondingDroneId, droneArrived, alertResolved,
                 dispatchStatus, metrics, responseTimeFlash, dispatchStartTime, now,
                 alertTimer, settleTimers, flashTimers, arrivalLogTimers, nearestResult,
                 marks, dispatchedAt, lastArrival, track>>

\* (mutation of ReturnedDrones: the returned drone moved to the end of the list)
ReturnedDronesLast(ds, droneId) ==
  SelectSeq(ds, LAMBDA d : d.id # droneId)
    \o [i \in 1..Cardinality(DroneIndex(ds, droneId)) |->
         [ds[CHOOSE k \in DroneIndex(ds, droneId) : TRUE]
            EXCEPT !.status = "returning", !.speed = 15]]

\* setDrones(prev => prev.map(...)) of the settle callback
ReturnedDrones(ds, droneId) ==
  [i \in 1..Len(ds) |->
     IF ds[i].id = droneId THEN [ds[i] EXCEPT !.status = "returning", !.speed = 15]
     ELSE ds[i]]

\* the 2000 ms setTimeout callback scheduled at arrival
SettleFire ==
  \E t \in settleTimers :
    /\ t.due <= now
    /\ settleTimers' = settleTimers \ {t}
    /\ alert' = NoObject
    /\ alertResolved' = TRUE
    /\ respondingDroneId' = NULL
    /\ dispatchStatus' = "idle"
    /\ droneArrived' = FALSE
    /\ drones' = ReturnedDrones(drones, t.droneId)
    /\ alertTimer' = AlertEffect(alert, alertResolved, NoObject, TRUE, alertTimer)
    /\ lastOp' = [NoOp EXCEPT !.op = "settle", !.droneId = t.droneId,
                              !.ok = (alert # NoObject)]
    /\ marks' = IF alert # NoObject THEN [marks EXCEPT !.clearedAt = now] ELSE marks
    /\ UNCHANGED hookVars
    /\ UNCHANGED <<logEntries, metrics, responseTimeFlash, dispatchStartTime, now,
                   patrolLogDue, flashTimers, arrivalLogTimers, nearestResult,
                   dispatchedAt, lastArrival, track>>

\* the 1000 ms setTimeout callback: setResponseTimeFlash(false)
FlashFire ==
  \E due \in flashTimers :
    /\ due <= now
    /\ flashTimers' = flashTimers \ {due}
    /\ responseTimeFlash' = FALSE
    /\ lastOp' = [NoOp EXCEPT !.op = "flash"]
    /\ UNCHANGED hookVars
    /\ UNCHANGED <<drones, alert, respondingDroneId, logEntries, droneArrived,
                   alertResolved, dispatchStatus, metrics, dispatchStartTime, now,
                   alertTimer, patrolLogDue, settleTimers, arrivalLogTimers,
                   nearestResult, marks, dispatchedAt, lastArrival, track>>

\* the 0 ms setTimeout callback: addLogEntry('arrival', ...)
ArrivalLogFire ==
  /\ arrivalLogTimers # <<>>
  /\ logEntries' = addLogEntry(logEntries, "arrival", Head(arrivalLogTimers))
  /\ arrivalLogTimers' = Tail(arrivalLogTimers)
  /\ marks' = [marks EXCEPT !.logs = @ + 1]
  /\ lastOp' = [NoOp EXCEPT !.op = "arrivalLog", !.droneId = Head(arrivalLogTimers)[1]]
  /\ UNCHANGED hookVars
  /\ UNCHANGED <<drones, alert, respondingDroneId, droneArrived, alertResolved,
                 dispatchStatus, metrics, responseTimeFlash, dispatchStartTime, now,
                 alertTimer, patrolLogDue, settleTimers, flashTimers, nearestResult,
                 dispatchedAt, lastArrival, track>>

-----------------------------------------------------------------------------
(* The dashboard under the controls the UI offers                          *)

Next ==
  \/ Tick
  \/ AlertTimerFire
  \/ PatrolLogFire
  \/ SettleFire
  \/ FlashFire
  \/ ArrivalLogFire
  \/ ClickDispatchNearest
  \/ ClickDroneMarker
  \/ ClickDispatchManual

Spec == Init /\ [][Next]_vars

(* The dashboard with its timers running: the browser runs every interval  *)
(* and timeout callback that is due.                                       *)

\* the interval at line 271 is due and no timeout is waiting before it: the
\* next thing the event loop does is let one tick period elapse
TickElapses ==
  /\ now < MaxNow
  /\ ~TimerDue
  /\ now' = now + TickMs

\* every callback that is due is run: the tick again and again (only the tick
\* advances the clock), each timeout once its delay has elapsed
Fairness ==
  /\ WF_now(TickElapses)
  /\ WF_vars(AlertTimerFire)
  /\ WF_vars(PatrolLogFire)
  /\ WF_vars(SettleFire)
  /\ WF_vars(FlashFire)
  /\ WF_vars(ArrivalLogFire)

SpecLive == Init /\ [][Next]_vars /\ Fairness

(* The dashboard with a roster whose first patrol drone is nearly drained   *)

\* the roster with DXD-001's battery LowCharge decrements above the floor
DrainedRoster ==
  [i \in 1..Len(initialDrones) |->
     IF initialDrones[i].id = "DXD-001"
     THEN [initialDrones[i] EXCEPT !.battery = BatteryFloor + LowCharge * BatteryDecrement]
     ELSE initialDrones[i]]

InitDrained ==
  /\ drones = DrainedRoster
  /\ alert = NoObject
  /\ InitApp
  /\ InitHook

SpecDrained == InitDrained /\ [][Next]_vars

(* The dashboard, and its unmount: React runs the cleanup of every effect  *)

\* the instants at which the dashboard is closed
UnmountTimes == {4000, 5050, 6500}

\* the App is mounted as long as its patrol-log interval exists: the effect
\* that arms it runs once, and only its cleanup clears it
Mounted == patrolLogDue # NoTime

\* the timeouts armed inside the tick callback that are still pending
PendingTimeouts ==
  settleTimers # {} \/ flashTimers # {} \/ arrivalLogTimers # <<>>

\* unmount: the three effect cleanups run, clearInterval(interval),
\* clearTimeout(timer) and clearInterval(patrolLogInterval); nothing clears
\* the timeouts armed inside the tick callback
Unmount ==
  /\ Mounted
  /\ now \in UnmountTimes
  /\ alertTimer' = NoTime
  /\ patrolLogDue' = NoTime
  /\ lastOp' = [NoOp EXCEPT !.op = "unmount"]
  /\ UNCHANGED hookVars
  /\ UNCHANGED <<drones, alert, respondingDroneId, logEntries, droneArrived,
                 alertResolved, dispatchStatus, metrics, responseTimeFlash,
                 dispatchStartTime, now, settleTimers, flashTimers, arrivalLogTimers,
                 nearestResult, marks, dispatchedAt, lastArrival, track>>

\* after the unmount time goes on, with no tick callback
TimePasses ==
  /\ ~Mounted
  /\ now < MaxNow
  /\ PendingTimeouts
  /\ arrivalLogTimers = <<>>
  /\ \A t \in settleTimers : t.due > now
  /\ \A due \in flashTimers : due > now
  /\ now' = now + TickMs
  /\ UNCHANGED hookVars
  /\ UNCHANGED <<drones, alert, respondingDroneId, logEntries, droneArrived,
                 alertResolved, dispatchStatus, metrics, responseTimeFlash,
                 dispatchStartTime, alertTimer, patrolLogDue, settleTimers, flashTimers,
                 arrivalLogTimers, nearestResult, lastOp, marks, dispatchedAt,
                 lastArrival, track>>

\* a callback of a timeout that outlived the unmount: it runs, and the state
\* setters it calls are ignored for the unmounted component
StaleTimeoutFire ==
  /\ ~Mounted
  /\ \/ /\ arrivalLogTimers # <<>>
        /\ arrivalLogTimers' = Tail(arrivalLogTimers)
        /\ lastOp' = [NoOp EXCEPT !.op = "arrivalLog", !.droneId = Head(arrivalLogTimers)[1]]
        /\ UNCHANGED <<settleTimers, flashTimers>>
     \/ \E due \in flashTimers :
          /\ due <= now
          /\ flashTimers' = flashTimers \ {due}
          /\ lastOp' = [NoOp EXCEPT !.op = "flash"]
          /\ UNCHANGED <<settleTimers, arrivalLogTimers>>
     \/ \E t \in settleTimers :
          /\ t.due <= now
          /\ settleTimers' = settleTimers \ {t}
          /\ lastOp' = [NoOp EXCEPT !.op = "settle", !.droneId = t.droneId]
          /\ UNCHANGED <<flashTimers, arrivalLogTimers>>
  /\ UNCHANGED hookVars
  /\ UNCHANGED <<drones, alert, respondingDroneId, logEntries, droneArrived,
                 alertResolved, dispatchStatus, metrics, responseTimeFlash,
                 dispatchStartTime, now, alertTimer, patrolLogDue, nearestResult,
                 marks, dispatchedAt, lastArrival, track>>

NextUnmount ==
  \/ Mounted /\ Next
  \/ Unmount
  \/ TimePasses
  \/ StaleTimeoutFire

SpecUnmount == Init /\ [][NextUnmount]_vars

(* The dashboard, and one direct call of handleDispatch that ends the run  *)

NextCall ==
  \/ lastOp.via # "call" /\ Next
  \/ lastOp.via # "call" /\ CallHandleDispatch

SpecCall == Init /\ [][NextCall]_vars

-----------------------------------------------------------------------------
(* The responding branch of the tick on its own: one drone already         *)
(* dispatched to an active alert, at any distance up to MaxD0 on either    *)
(* side of it; ticks run until the arrival is marked.                      *)

CeilDiv(a, b) == (a + b - 1) \div b

InitMove ==
  /\ now = AlertDelayCold
  /\ \E site \in AlertSites, kind \in AlertKinds, i \in 1..Len(initialDrones),
        off \in (0 - MaxD0)..MaxD0, n \in AlertsTodayStart :
       LET al == generateAlert(site, kind)
           drone == [initialDrones[i] EXCEPT !.status = "responding", !.speed = 25,
                                             !.lng = al.lng + off]
       IN  /\ alert = al
           /\ drones = [initialDrones EXCEPT ![i] = drone]
           /\ respondingDroneId = drone.id
           /\ logEntries =
                addLogEntry(addLogEntry(addLogEntry(<<>>, "system", <<"System online", 2>>),
                                        "alert", <<kind, al.locationName>>),
                            "dispatch", <<drone.id, "dispatched to", al.locationName>>)
           /\ metrics = [activeDrones |-> 2, totalDrones |-> Len(initialDrones),
                         avgResponseTime |-> -1, responseTimes |-> <<>>,
                         alertsToday |-> n + 1]
           /\ dispatchedAt = [id \in DroneIds |-> IF id = drone.id THEN DateNow ELSE NoTime]
           /\ track = [id \in DroneIds |->
                         IF id = drone.id
                         THEN [d0 |-> DistanceToAlert(drone, al), n |-> 0, reached |-> FALSE]
                         ELSE NoTrack]
           /\ lastOp = [op |-> "handleDispatch", via |-> "ui", droneId |-> drone.id,
                        isManual |-> FALSE, ok |-> TRUE]
  /\ droneArrived = FALSE
  /\ alertResolved = FALSE
  /\ dispatchStatus = "en_route"
  /\ responseTimeFlash = FALSE
  /\ dispatchStartTime = DateNow
  /\ alertTimer = NoTime
  /\ patrolLogDue = PatrolLogMs
  /\ settleTimers = {}
  /\ flashTimers = {}
  /\ arrivalLogTimers = <<>>
  /\ nearestResult = [panel |-> NoObject, scene |-> NULL, legacy |-> NULL,
                      button |-> FALSE]
  /\ marks = [NoMarks EXCEPT !.dispatches = 1, !.clickedAt = DateNow]
  /\ lastArrival = NoObject
  /\ InitHook

NextMove == Tick

SpecMove == InitMove /\ [][NextMove]_vars

-----------------------------------------------------------------------------
(* The nearest-drone queries on their own: a render of StatusPanel and     *)
(* DroneScene3D over a drone list of up to MaxFleet drones on a            *)
(* (0..MaxLat) x (0..MaxLng) grid, with the alert (if any) at the origin.  *)

GridDrone(i, lat, lng, status) ==
  [initialDrones[i] EXCEPT !.lat = lat, !.lng = lng, !.status = status]

GridPoints == (0..MaxLat) \X (0..MaxLng) \X {"idle", "responding"}

InitNearest ==
  /\ \E k \in 0..MaxFleet : \E fleet \in [1..k -> GridPoints] :
       drones = [i \in 1..k |-> GridDrone(i, fleet[i][1], fleet[i][2], fleet[i][3])]
  /\ alert \in {NoObject,
                [id |-> Epoch, lat |-> 0, lng |-> 0, type |-> "motion_detected",
                 severity |-> "high", timestamp |-> Epoch, locationName |-> "Origin"]}
  /\ InitApp
  /\ InitHook

\* a render: StatusPanel and DroneScene3D evaluate their queries on the props
RenderNearest ==
  /\ lastOp.op # "render"
  /\ nearestResult' = [panel |-> nearestDrone(drones, alert),
                       scene |-> nearestDroneId(drones, alert),
                       legacy |-> findNearestDroneId(drones, alert),
                       button |-> NearestButtonShown(drones, alert)]
  /\ lastOp' = [NoOp EXCEPT !.op = "render", !.via = "ui"]
  /\ UNCHANGED hookVars
  /\ UNCHANGED <<drones, alert, respondingDroneId, logEntries, droneArrived,
                 alertResolved, dispatchStatus, metrics, responseTimeFlash,
                 dispatchStartTime, now, alertTimer, patrolLogDue, settleTimers,
                 flashTimers, arrivalLogTimers, marks, dispatchedAt, lastArrival, track>>

NextNearest == RenderNearest

SpecNearest == InitNearest /\ [][NextNearest]_vars

-----------------------------------------------------------------------------
(* The building loader of the scene: hooks/useBuildings.ts                  *)

CACHE_DURATION == 86400000

\* the static list of data/fallbackBuildings.ts, by id (its first entries)
fallbackBuildings == <<101, 102, 201>>

\* what the loader can meet: building and road lists (by id), the age of a
\* stored entry, how long the fetch takes, how long until the page is loaded
\* again, and how many times the page is loaded
MaxLoads == 2
BuildingLists == {<<>>, <<1>>, <<1, 2>>}
RoadLists == {<<>>, <<9>>}
CacheAges == {0, CACHE_DURATION - 1, CACHE_DURATION, CACHE_DURATION + 1}
LoadDelays == {TickMs, 1000}
ReloadDelays == {1000, CACHE_DURATION}

\* the item stored under CACHE_KEY: the JSON text of a CachedData object, with
\* the fields it has
CacheEntry(timestamp, bs, rs) ==
  [kind |-> "entry", hasTimestamp |-> TRUE, timestamp |-> timestamp,
   hasBuildings |-> TRUE, buildings |-> bs, hasRoads |-> TRUE, roads |-> rs]

\* the items the storage may hold when the page is loaded at Date.now() = t:
\* nothing, text that is not JSON, the JSON text null, entries written by this
\* code at several ages, and entries that lack a field
StoredItems(t) ==
  {NoItem, [kind |-> "garbled"], [kind |-> "jsonNull"]}
    \cup {CacheEntry(t - age, bs, rs) :
            age \in CacheAges, bs \in BuildingLists, rs \in RoadLists}
    \cup {[CacheEntry(t - age, bs, <<>>) EXCEPT !.hasRoads = FALSE] :
            age \in CacheAges, bs \in BuildingLists}
    \cup {[CacheEntry(t, <<>>, rs) EXCEPT !.hasBuildings = FALSE] : rs \in RoadLists}
    \cup {[CacheEntry(0, bs, <<>>) EXCEPT !.hasTimestamp = FALSE] : bs \in BuildingLists}

\* how the browser answers localStorage calls: normally; with every access
\* throwing (storage blocked or disabled: SecurityError); with setItem
\* throwing (quota exceeded)
StorageAccess == {"ok", "denied", "full"}

\* what await fetchOSMBuildings() gives: a rejection, or buildings and roads
FetchAnswers ==
  {[kind |-> "throws", buildings |-> <<>>, roads |-> <<>>]}
    \cup {[kind |-> "data", buildings |-> bs, roads |-> rs] :
            bs \in BuildingLists, rs \in RoadLists}

InitLoad ==
  /\ drones = initialDrones
  /\ alert = NoObject
  /\ InitApp
  /\ useBuildings = HookMounted
  /\ \E access \in StorageAccess, item \in StoredItems(DateNow) :
       localStorage = [access |-> access, item |-> item]
  /\ loadTrace = NoTrace

\* line 29: Date.now() - data.timestamp < CACHE_DURATION (NaN when the field
\* is missing: false)
WithinDuration(item, date) ==
  item.hasTimestamp /\ date - item.timestamp < CACHE_DURATION

\* lines 72-77
UseFallback(hook) ==
  [hook EXCEPT !.buildings = fallbackBuildings, !.roads = <<>>, !.source = "fallback",
               !.isLoading = FALSE, !.pc = "returned"]

\* lines 25-44: the effect calls loadBuildings, which tries the cache first
ReadCache ==
  /\ useBuildings.pc = "mounted"
  /\ LET item == localStorage.item
         cleared == [localStorage EXCEPT !.item = NoItem]
         fetching == [useBuildings EXCEPT !.pc = "fetching"]
     IN  IF localStorage.access = "denied"
         THEN \* getItem throws; in the catch block removeItem throws as well,
              \* and the promise of loadBuildings is rejected
              /\ useBuildings' = [useBuildings EXCEPT !.pc = "rejected"]
              /\ localStorage' = localStorage
              /\ loadTrace' = [loadTrace EXCEPT !.readAt = DateNow]
         ELSE /\ loadTrace' = [loadTrace EXCEPT !.read = item, !.readAt = DateNow]
              /\ CASE item.kind = "null" ->
                       useBuildings' = fetching /\ localStorage' = localStorage
                   [] item.kind \in {"garbled", "jsonNull"} ->
                       \* JSON.parse or data.timestamp throws: the catch block
                       useBuildings' = fetching /\ localStorage' = cleared
                   [] OTHER ->
                       IF ~WithinDuration(item, DateNow)
                       THEN useBuildings' = fetching /\ localStorage' = localStorage
                       ELSE IF ~item.hasBuildings
                       THEN \* data.buildings.length throws: the catch block
                            useBuildings' = fetching /\ localStorage' = cleared
                       ELSE /\ useBuildings' =
                                 [useBuildings EXCEPT
                                    !.buildings = item.buildings,
                                    !.roads = IF item.hasRoads THEN item.roads ELSE <<>>,
                                    !.source = "cache", !.isLoading = FALSE,
                                    !.pc = "returned"]
                            /\ localStorage' = localStorage
  /\ lastOp' = [NoOp EXCEPT !.op = "readCache"]
  /\ UNCHANGED <<drones, alert, respondingDroneId, logEntries, droneArrived,
                 alertResolved, dispatchStatus, metrics, responseTimeFlash,
                 dispatchStartTime, now, alertTimer, patrolLogDue, settleTimers,
                 flashTimers, arrivalLogTimers, nearestResult, marks, dispatchedAt,
                 lastArrival, track>>

\* lines 47-77: the fetch settles after some time
FetchSettles ==
  /\ useBuildings.pc = "fetching"
  /\ \E osmData \in FetchAnswers, delay \in LoadDelays :
       /\ now' = now + delay
       /\ loadTrace' = [loadTrace EXCEPT !.fetched = TRUE, !.answer = osmData]
       /\ IF osmData.kind = "data" /\ Len(osmData.buildings) > 0
          THEN /\ useBuildings' =
                    [useBuildings EXCEPT !.buildings = osmData.buildings,
                                         !.roads = osmData.roads, !.source = "osm",
                                         !.isLoading = FALSE, !.pc = "returned"]
               /\ localStorage' =
                    IF localStorage.access = "ok"
                    THEN [localStorage EXCEPT
                            !.item = CacheEntry(Epoch + now', osmData.buildings,
                                                osmData.roads)]
                    ELSE localStorage
          ELSE /\ useBuildings' = UseFallback(useBuildings)
               /\ localStorage' = localStorage
  /\ lastOp' = [NoOp EXCEPT !.op = "fetchSettles"]
  /\ UNCHANGED <<drones, alert, respondingDroneId, logEntries, droneArrived,
                 alertResolved, dispatchStatus, metrics, responseTimeFlash,
                 dispatchStartTime, alertTimer, patrolLogDue, settleTimers,
                 flashTimers, arrivalLogTimers, nearestResult, marks, dispatchedAt,
                 lastArrival, track>>

\* the page is loaded again later: the hook starts over, the storage is kept
Reload ==
  /\ useBuildings.pc \in {"returned", "rejected"}
  /\ loadTrace.loads + 1 < MaxLoads
  /\ \E delay \in ReloadDelays : now' = now + delay
  /\ useBuildings' = HookMounted
  /\ loadTrace' = [NoTrace EXCEPT !.loads = loadTrace.loads + 1]
  /\ lastOp' = [NoOp EXCEPT !.op = "reload"]
  /\ UNCHANGED <<drones, alert, respondingDroneId, logEntries, droneArrived,
                 alertResolved, dispatchStatus, metrics, responseTimeFlash,
                 dispatchStartTime, alertTimer, patrolLogDue, settleTimers,
                 flashTimers, arrivalLogTimers, nearestResult, marks, dispatchedAt,
                 lastArrival, track, localStorage>>

NextLoad ==
  \/ ReadCache
  \/ FetchSettles
  \/ Reload

SpecLoad == InitLoad /\ [][NextLoad]_vars

-----------------------------------------------------------------------------
(* Properties                                                              *)

Responding == {i \in 1..Len(drones) : drones[i].status = "responding"}

\* C1: in every reachable state at most one drone has status 'responding',
\* under the dispatches the UI controls allow.
C1_AtMostOneResponding == Cardinality(Responding) <= 1

\* the state handleDispatch is specified to leave alone when it is a no-op
DispatchState ==
  <<drones, respondingDroneId, dispatchStatus, droneArrived, dispatchStartTime,
    metrics, logEntries>>

\* C2: a call of handleDispatch whose preconditions fail (no active alert, a
\* drone that is already responding, an id that names no drone) changes none
\* of drones, respondingDroneId, dispatchStatus, droneArrived, the dispatch
\* start time, the metrics and the log.
C2_FailedDispatchIsNoOp ==
  [][(lastOp'.op = "handleDispatch" /\ ~lastOp'.ok) => UNCHANGED DispatchState]_vars

\* C3: after a successful handleDispatch(d), a second handleDispatch(d) before
\* any tick leaves the whole state as the first call left it.
C3_DispatchIdempotent ==
  [][(/\ lastOp.op = "handleDispatch" /\ lastOp.ok
      /\ lastOp'.op = "handleDispatch" /\ lastOp'.droneId = lastOp.droneId)
     => UNCHANGED <<DispatchState, alert, alertResolved, responseTimeFlash>>]_vars

\* C4: the alert-generation timer is armed only while alert = null, and each
\* of its firings happens in a state where alert = null.
C4_AlertTimerOnlyWithoutAlert ==
  /\ alert # NoObject => alertTimer = NoTime
  /\ lastOp.op = "alertTimer" => lastOp.ok

\* C4 witness: a second alert has been created, after the first was resolved.
C4_Witness ==
  /\ lastOp.op = "alertTimer"
  /\ alert # NoObject
  /\ Len(SelectSeq(logEntries, LAMBDA e : e.type = "alert")) = 2

\* C5: between the creation of an alert and its clearing the arrival branch
\* emits at most one 'arrival' log entry, appends at most one response-time
\* sample and schedules at most one settle timeout.
C5_ArrivalMarkedOnce ==
  marks.logs <= 1 /\ marks.samples <= 1 /\ marks.settles <= 1

\* C6: the sample recorded at an arrival is the whole seconds between the
\* dispatch of the drone that arrived and the tick that detected its arrival.
C6_SampleIsElapsedSinceDispatch ==
  lastArrival # NoObject =>
    lastArrival.sample = RoundDiv(lastArrival.at - lastArrival.dispatched, 1000)

\* C7: while a drone stays 'responding' to the active alert its distance to
\* the alert never grows from one tick to the next, and the arrival branch is
\* reached after at most ceil(d0 / 0.0003) + 1 ticks, d0 the distance at
\* dispatch (d0 = 0 included).
C7_WithinBound ==
  \A id \in DOMAIN track :
    track[id].n <= CeilDiv(track[id].d0, RespondStep) + (IF track[id].reached THEN 1 ELSE 0)

C7_NonIncreasing ==
  \A i \in 1..Len(drones) :
    (IsResponding(drones[i], alert) /\ alert' = alert /\ drones'[i].status = "responding")
      => DistanceToAlert(drones'[i], alert) <= DistanceToAlert(drones[i], alert)

C7_MonotoneBoundedApproach == []C7_WithinBound /\ [][C7_NonIncreasing]_vars

\* C7 witness: a drone dispatched from farther than one step has reached the
\* arrival branch in exactly ceil(d0 / 0.0003) + 1 ticks.
C7_Witness ==
  \E id \in DOMAIN track :
    /\ track[id].reached /\ track[id].d0 > RespondStep
    /\ track[id].n = CeilDiv(track[id].d0, RespondStep) + 1

\* C8: the step of a responding drone is clamped: whenever the tick moves the
\* drone toward the alert the step (0.0003) is at most the remaining distance,
\* and the drone does not end the tick on the far side of the alert.
C8_StepNeverOvershoots ==
  [][lastOp'.op = "tick" =>
       \A i \in 1..Len(drones) :
         (IsResponding(drones[i], alert) /\ ~AtAlert(drones[i], alert)) =>
           /\ RespondStep <= DistanceToAlert(drones[i], alert)
           /\ (alert.lng - drones[i].lng) * (alert.lng - drones'[i].lng) >= 0
           /\ (alert.lat - drones[i].lat) * (alert.lat - drones'[i].lat) >= 0]_vars

SquaredDistance(drone, al) == Pow2(drone.lat - al.lat) + Pow2(drone.lng - al.lng)

\* C9: with an active alert and a drone available, the nearest-drone query
\* returns a drone that is not 'responding' and whose planar distance to the
\* alert is minimal among the drones that are not 'responding', and the query
\* of StatusPanel and the one of DroneScene3D select the same drone.
C9_NearestIsMinimalAndQueriesAgree ==
  (lastOp.op = "render" /\ alert # NoObject /\ Available(drones) # <<>>) =>
    /\ nearestResult.panel.status # "responding"
    /\ \A i \in 1..Len(drones) :
         drones[i].status # "responding" =>
           SquaredDistance(nearestResult.panel, alert) <= SquaredDistance(drones[i], alert)
    /\ nearestResult.scene = nearestResult.panel.id

\* C10: the nearest-drone query (StatusPanel's and DroneScene3D's) never
\* throws, and when there is no active alert or every drone is 'responding'
\* it returns null and the DISPATCH NEAREST control is not offered.
C10_NoneAvailableIsNull ==
  lastOp.op = "render" =>
    /\ nearestResult.panel # TypeError
    /\ nearestResult.scene # "TypeError"
    /\ (alert = NoObject \/ \A i \in 1..Len(drones) : drones[i].status = "responding")
         => /\ nearestResult.panel = NoObject
            /\ nearestResult.scene = NULL
            /\ ~nearestResult.button

\* C10 witness: a render with an active alert and a fleet that is all responding.
C10_Witness ==
  /\ lastOp.op = "render"
  /\ alert # NoObject
  /\ Len(drones) = MaxFleet
  /\ \A i \in 1..Len(drones) : drones[i].status = "responding"
  /\ nearestResult.panel = NoObject

\* the distance StatusPanel's query compares: the Math.sqrt value
RootDistance(drone, al) == Sqrt(SquaredDistance(drone, al))

\* the first drone, in list order, among the drones that are not 'responding'
\* and whose distance Dist to the alert is minimal
FirstAtMinimum(ds, al, Dist(_, _)) ==
  LET avail == {i \in 1..Len(ds) : ds[i].status # "responding"}
      mins == {i \in avail : \A j \in avail : Dist(ds[i], al) <= Dist(ds[j], al)}
  IN  ds[CHOOSE i \in mins : \A j \in mins : i <= j]

\* C11: the nearest-drone query breaks ties by list order: among the drones
\* that are not 'responding' and tie at the minimal distance, as the query
\* computes it (the Math.sqrt value in StatusPanel, the squared distance in
\* DroneScene3D), the one that comes first in the drone list is returned.
C11_TieBreakIsFirstInList ==
  (lastOp.op = "render" /\ alert # NoObject /\ Available(drones) # <<>>) =>
    /\ nearestResult.panel = FirstAtMinimum(drones, alert, RootDistance)
    /\ nearestResult.scene = FirstAtMinimum(drones, alert, SquaredDistance).id

\* C11 witness: a render where the second and third drone of the list tie at
\* the minimal distance, the first drone is farther, and the second is returned.
C11_Witness ==
  /\ lastOp.op = "render" /\ alert # NoObject /\ Len(drones) = 3
  /\ \A i \in 1..3 : drones[i].status # "responding"
  /\ SquaredDistance(drones[2], alert) = SquaredDistance(drones[3], alert)
  /\ RootDistance(drones[2], alert) < RootDistance(drones[1], alert)
  /\ drones[2].lat # drones[3].lat
  /\ nearestResult.panel = drones[2]
  /\ nearestResult.scene = drones[2].id

\* C12: metrics.alertsToday grows by exactly 1 in the step that creates an
\* alert and is left unchanged by every other step (dispatch, tick, arrival,
\* settle timeout, patrol log, flash and arrival-log timers).
C12_AlertsTodayCountsCreations ==
  [][IF alert' # alert /\ alert' # NoObject
     THEN metrics'.alertsToday = metrics.alertsToday + 1
     ELSE metrics'.alertsToday = metrics.alertsToday]_vars

\* C12 witness: a second alert has been created after a dispatch and an
\* arrival that recorded a sample; alertsToday has grown twice.
C12_Witness ==
  /\ lastOp.op = "alertTimer"
  /\ Len(metrics.responseTimes) >= 1
  /\ \E n \in AlertsTodayStart : metrics.alertsToday = n + 2

StatusOf(id) == drones[CHOOSE i \in DroneIndex(drones, id) : TRUE].status

\* drone id has just been dispatched to the active alert, early enough for a
\* whole response (flight, settle delay, flight home) to fit before MaxNow
JustDispatched(id) ==
  /\ lastOp.op = "handleDispatch" /\ lastOp.ok /\ lastOp.droneId = id
  /\ now + ResponseHorizon <= MaxNow

HomeStatus(id) == IF droneConfigs[id].mode = "patrol" THEN "patrolling" ELSE "idle"

C14_AlertClearedOnlyBySettle ==
  [][/\ (alert # NoObject /\ alert' = NoObject) =>
          /\ lastOp'.op = "settle"
          /\ marks.settles >= 1
          /\ \E t \in settleTimers \ settleTimers' :
               /\ track[t.droneId].reached
               /\ Epoch + (t.due - SettleMs) >= alert.timestamp
               /\ now >= t.due
     /\ (alert # NoObject /\ marks.dispatches = 0) => alert' = alert]_vars

\* C14 witness: a settle timeout has just cleared an active alert, two seconds
\* after the first of several arrivals; another timeout of that alert is
\* still pending.
C14_Witness ==
  /\ lastOp.op = "settle" /\ lastOp.ok
  /\ alert = NoObject
  /\ marks.settles >= 2
  /\ settleTimers # {}

\* C15: respondingDroneId records the first drone dispatched to the current
\* alert: while the same alert stays active, no step changes a
\* respondingDroneId that is set; and it goes back to null exactly in the
\* step that clears the alert.
C15_ResponderIsFirstDispatched ==
  [][/\ (alert # NoObject /\ alert' = alert /\ respondingDroneId # NULL) =>
          respondingDroneId' = respondingDroneId
     /\ (respondingDroneId # NULL /\ respondingDroneId' = NULL) <=>
          (alert # NoObject /\ alert' = NoObject)]_vars

\* every drone the tick steers toward the active alert was dispatched while
\* that alert was active (alerts do not overlap: at or after its creation)
SteersToOwnAlert ==
  \A i \in 1..Len(drones) :
    IsResponding(drones[i], alert) =>
      /\ dispatchedAt[drones[i].id] # NoTime
      /\ dispatchedAt[drones[i].id] >= alert.timestamp

\* C16: a responding drone is never re-assigned to a new alert: in every step
\* that creates an alert no drone is 'responding', and a responding drone only
\* steers toward the alert that was active when it was dispatched, also a
\* second drone whose alert another drone resolved first.
C16_RespondingNeverReassigned ==
  /\ []SteersToOwnAlert
  /\ [][(alert' # alert /\ alert' # NoObject) =>
          \A i \in 1..Len(drones) : drones[i].status # "responding"]_vars

\* C16 witness: a new alert has just been created after an alert that a first
\* drone resolved while a second dispatched drone had not reached it.
C16_Witness ==
  /\ lastOp.op = "alertTimer" /\ alert # NoObject
  /\ \E id \in DroneIds :
       /\ dispatchedAt[id] # NoTime /\ dispatchedAt[id] < alert.timestamp
       /\ ~track[id].reached

\* the tick processes this drone in its patrolling branch (the last one)
InPatrolBranch(drone, al) ==
  /\ ~IsResponding(drone, al)
  /\ drone.status # "idle" /\ drone.status # "returning"
  /\ drone.id \in DOMAIN droneConfigs
  /\ droneConfigs[drone.id].mode = "patrol"

\* C17: battery never increases and never goes below 20: in every step every
\* drone's battery is kept, except that a tick lowers by 0.001, clamped at 20,
\* the battery of each drone it processes in the patrolling branch; no other
\* action and no other branch changes a battery.
C17_BatteryMonotoneAndFloored ==
  [][\A i \in 1..Len(drones) :
       LET b == drones[i].battery
           b1 == drones'[i].battery
           drained == IF b - BatteryDecrement >= BatteryFloor
                      THEN b - BatteryDecrement ELSE BatteryFloor
       IN  /\ b1 <= b
           /\ b1 >= BatteryFloor
           /\ IF lastOp'.op = "tick" /\ InPatrolBranch(drones[i], alert)
              THEN b1 = drained
              ELSE b1 = b]_vars

\* C17 witness: a tick has just clamped the drained patrol drone at the floor
\* while another drone, dispatched, kept its battery.
C17_Witness ==
  /\ lastOp.op = "tick"
  /\ \E i \in 1..Len(drones) :
       /\ drones[i].status = "patrolling"
       /\ drones[i].battery = BatteryFloor
  /\ \E j \in 1..Len(drones) :
       /\ drones[j].status = "responding"
       /\ drones[j].battery = initialDrones[j].battery

\* C18: a tick leaves every drone whose status is 'idle' completely unchanged
\* (position, heading, speed, battery and status), with or without an alert.
C18_TickKeepsIdleDrones ==
  [][lastOp'.op = "tick" =>
       \A i \in 1..Len(drones) :
         drones[i].status = "idle" =>
           /\ drones'[i] = drones[i]
           /\ drones'[i].lat = drones[i].lat /\ drones'[i].lng = drones[i].lng
           /\ drones'[i].heading = drones[i].heading
           /\ drones'[i].speed = drones[i].speed
           /\ drones'[i].battery = drones[i].battery
           /\ drones'[i].status = "idle"]_vars

\* C18 witness: a tick has run with an alert active, one drone responding to
\* it and in flight, and an idle drone on its pad.
C18_Witness ==
  /\ lastOp.op = "tick" /\ alert # NoObject
  /\ \E i, j \in 1..Len(drones) :
       /\ drones[i].status = "idle" /\ drones[i].lng # alert.lng
       /\ drones[j].status = "responding" /\ drones[j].speed = 25

\* the home target of a drone: the centre of its patrol circle, or its pad
HomeTarget(config) ==
  IF config.mode = "patrol" THEN [lat |-> config.centerLat, lng |-> config.centerLng]
  ELSE [lat |-> config.lat, lng |-> config.lng]

\* C19: in a tick a 'returning' drone changes status only on arrival at its
\* home target (distance < 0.0002): it is then snapped to the target and is
\* 'patrolling' if its mode is patrol, 'idle' if its mode is idle; farther
\* away it stays 'returning'.
C19_ReturningUntilHome ==
  [][lastOp'.op = "tick" =>
       \A i \in 1..Len(drones) :
         drones[i].status = "returning" =>
           LET config == droneConfigs[drones[i].id]
               home == HomeTarget(config)
           IN  IF Distance(drones[i].lat, drones[i].lng, home.lat, home.lng)
                    < ArrivalThreshold
               THEN /\ drones'[i].lat = home.lat /\ drones'[i].lng = home.lng
                    /\ drones'[i].status = HomeStatus(drones[i].id)
               ELSE drones'[i].status = "returning"]_vars

\* C19 witness: a tick has just moved a returning drone that is still away
\* from its home target, after it resolved an alert elsewhere.
C19_Witness ==
  /\ lastOp.op = "tick" /\ alert = NoObject
  /\ \E i \in 1..Len(drones) :
       LET home == HomeTarget(droneConfigs[drones[i].id])
       IN  /\ drones[i].status = "returning"
           /\ track[drones[i].id].reached
           /\ Distance(drones[i].lat, drones[i].lng, home.lat, home.lng) >= ArrivalThreshold
           /\ Distance(drones[i].lat, drones[i].lng, home.lat, home.lng)
                < track[drones[i].id].d0

\* C20: every timer is cancelled at teardown: once the App is unmounted no
\* callback of the tick interval, the alert timeout, the patrol-log interval,
\* a settle timeout, a flash timeout or an arrival-log timeout runs, and none
\* of them is left pending.
C20_NoCallbackAfterUnmount ==
  [][~Mounted =>
       /\ ~PendingTimeouts
       /\ ~(settleTimers' # settleTimers \/ flashTimers' # flashTimers
              \/ arrivalLogTimers' # arrivalLogTimers)
       /\ lastOp'.op \notin {"tick", "alertTimer", "patrolLog", "settle", "flash", "arrivalLog"}]_vars

\* loadBuildings has ended: it returned, or its promise was rejected
LoadEnded == useBuildings.pc \in {"returned", "rejected"}

\* the entry read from the storage is usable and younger than 24 hours
FreshEntryRead ==
  /\ loadTrace.read.kind = "entry"
  /\ loadTrace.read.hasBuildings
  /\ WithinDuration(loadTrace.read, loadTrace.readAt)

\* C21: the building loader tolerates an unavailable source: whenever
\* loadBuildings has ended, isLoading is false and source is 'cache', 'osm' or
\* 'fallback'; a cached entry younger than 24 hours is used without a fetch;
\* with no such entry, and a fetch that throws or returns no building, the
\* static fallbackBuildings are used with no roads.
C21_LoaderAlwaysCompletes ==
  LoadEnded =>
    /\ useBuildings.isLoading = FALSE
    /\ useBuildings.source \in {"cache", "osm", "fallback"}
    /\ FreshEntryRead =>
         /\ useBuildings.source = "cache" /\ ~loadTrace.fetched
         /\ useBuildings.buildings = loadTrace.read.buildings
    /\ (~FreshEntryRead /\ loadTrace.fetched
          /\ (loadTrace.answer.kind = "throws" \/ loadTrace.answer.buildings = <<>>)) =>
         /\ useBuildings.source = "fallback"
         /\ useBuildings.buildings = fallbackBuildings
         /\ useBuildings.roads = <<>>

\* C22: a drone leaves 'responding' only by the settle timeout, which sets it
\* to 'returning': no step takes a drone's status from 'responding' to
\* anything else, unless it is the settle callback and the new status is
\* 'returning'.
C22_RespondingEndsBySettle ==
  [][\A i \in 1..Len(drones) :
       (drones[i].status = "responding" /\ drones'[i].status # "responding") =>
         /\ lastOp'.op = "settle"
         /\ drones'[i].status = "returning"]_vars

\* C23: avgResponseTime is -1 while no sample is recorded, and otherwise the
\* arithmetic mean of all recorded samples rounded to the nearest integer:
\* an integer at most one half away from sum / count, the upper one at a half.
C23_AverageIsRoundedMean ==
  LET times == metrics.responseTimes
      count == Len(times)
      sum == SumSeq(times)
      avg == metrics.avgResponseTime
  IN  IF count = 0 THEN avg = -1
      ELSE /\ 2 * sum - count < 2 * avg * count
           /\ 2 * avg * count <= 2 * sum + count

\* C23 witness: an arrival has just recorded a second sample and the mean of
\* the samples is not a whole number.
C23_Witness ==
  /\ lastOp.op = "tick"
  /\ Len(metrics.responseTimes) >= 2
  /\ SumSeq(metrics.responseTimes) % Len(metrics.responseTimes) # 0
  /\ lastArrival # NoObject /\ lastArrival.at = DateNow - TickMs

IsPrefix(s, t) == Len(s) <= Len(t) /\ SubSeq(t, 1, Len(s)) = s

\* C24: metrics only accumulate: in every step alertsToday does not decrease
\* and the previous responseTimes list is a prefix of the new one.
C24_MetricsOnlyAccumulate ==
  [][/\ metrics'.alertsToday >= metrics.alertsToday
     /\ IsPrefix(metrics.responseTimes, metrics'.responseTimes)]_vars

\* C24 witness: a tick has just appended the third sample of the session,
\* after the alert counter has grown.
C24_Witness ==
  /\ lastOp.op = "tick"
  /\ Len(metrics.responseTimes) = 3
  /\ lastArrival # NoObject /\ lastArrival.at = DateNow - TickMs
  /\ \E n \in AlertsTodayStart : metrics.alertsToday > n

\* C25: a handleDispatch(d) whose preconditions are met changes, in the drone
\* list, only d's status (to 'responding') and speed (to 25): d's position,
\* heading and battery, every other drone, the alert and the metrics are
\* kept; it sets dispatchStatus 'en_route', respondingDroneId d, droneArrived
\* false and the dispatch start time, and appends exactly one 'dispatch'
\* entry to the log.
C25_DispatchFrame ==
  [][(lastOp'.op = "handleDispatch" /\ lastOp'.ok) =>
       LET d == lastOp'.droneId
       IN  /\ Len(drones') = Len(drones)
           /\ \A i \in 1..Len(drones) :
                IF drones[i].id = d
                THEN /\ drones'[i].status = "responding" /\ drones'[i].speed = 25
                     /\ drones'[i].id = d
                     /\ drones'[i].lat = drones[i].lat /\ drones'[i].lng = drones[i].lng
                     /\ drones'[i].heading = drones[i].heading
                     /\ drones'[i].battery = drones[i].battery
                ELSE drones'[i] = drones[i]
           /\ alert' = alert /\ metrics' = metrics
           /\ dispatchStatus' = "en_route"
           /\ respondingDroneId' = d
           /\ droneArrived' = FALSE
           /\ dispatchStartTime' = DateNow
           /\ Len(logEntries') = Len(logEntries) + 1
           /\ IsPrefix(logEntries, logEntries')
           /\ logEntries'[Len(logEntries')].type = "dispatch"]_vars

\* C25 witness: a drone that has patrolled away from its start position, with
\* a used battery, has just been dispatched by a manual dispatch.
C25_Witness ==
  /\ lastOp.op = "handleDispatch" /\ lastOp.ok /\ lastOp.isManual
  /\ \E i \in 1..Len(drones) :
       /\ drones[i].id = lastOp.droneId
       /\ drones[i].battery < initialDrones[i].battery
       /\ drones[i].lng # initialDrones[i].lng
       /\ drones[i].heading # 0

DroneStatuses == {"patrolling", "responding", "returning", "idle"}

\* C26: the roster is fixed and every drone is in exactly one of the four
\* states: the drone list holds exactly the ids of initialDrones, each once
\* and in the initial order, and every status is one of patrolling,
\* responding, returning, idle.
C26_RosterFixed ==
  /\ Len(drones) = Len(initialDrones)
  /\ \A i \in 1..Len(drones) :
       /\ drones[i].id = initialDrones[i].id
       /\ drones[i].status \in DroneStatuses

\* C26 witness: the settle callback has just run and the four drones are in
\* the four different states.
C26_Witness ==
  /\ lastOp.op = "settle"
  /\ {drones[i].status : i \in 1..Len(drones)} = DroneStatuses

\* C27: the activity log is append-only: a step that touches logEntries
\* appends exactly one entry at the end and keeps every earlier entry as it
\* was, in place.
C27_LogAppendOnly ==
  [][logEntries' # logEntries =>
       /\ Len(logEntries') = Len(logEntries) + 1
       /\ IsPrefix(logEntries, logEntries')]_vars

\* C27 witness: the patrol-log interval has just appended an entry to a log
\* that holds entries of all five types.
C27_Witness ==
  /\ lastOp.op = "patrolLog"
  /\ logEntries[Len(logEntries)].type = "patrol"
  /\ {logEntries[i].type : i \in 1..Len(logEntries)}
       = {"system", "patrol", "alert", "dispatch", "arrival"}

\* while no alert is active, the alert timeout counts from the last change of
\* the alert state: from the start, or from the clearing of the last alert
TimerCountsFromChange ==
  alert = NoObject =>
    alertTimer = IF marks.clearedAt = NoTime THEN AlertDelayCold
                 ELSE marks.clearedAt + AlertDelayResolved

\* C28: the first alert is created 5000 ms after the start; after an alert
\* has been cleared the next one is created no sooner than 8000 ms after the
\* clearing; the pending timeout always counts from the last change of the
\* alert state.
C28_AlertDelays ==
  /\ []TimerCountsFromChange
  /\ [][(alert' # alert /\ alert' # NoObject) =>
          IF marks.clearedAt = NoTime
          THEN ~alertResolved /\ now' = AlertDelayCold
          ELSE now' >= marks.clearedAt + AlertDelayResolved]_vars

\* C28 witness: a second alert has just been created, after the first one was
\* cleared and a later settle timeout of the first one ran in between.
C28_Witness ==
  /\ lastOp.op = "alertTimer" /\ alert # NoObject
  /\ now >= AlertDelayCold + SettleMs + AlertDelayResolved
  /\ Len(metrics.responseTimes) >= 2
  /\ settleTimers = {}

\* C29: under the dispatches the UI permits the dispatch bookkeeping stays
\* consistent: dispatchStatus is 'idle' exactly when respondingDroneId is
\* null, it is 'on_scene' exactly when droneArrived is true, and it is not
\* 'idle' only while an alert is active.
C29_BookkeepingConsistent ==
  /\ (dispatchStatus = "idle") <=> (respondingDroneId = NULL)
  /\ (dispatchStatus = "on_scene") <=> (droneArrived = TRUE)
  /\ dispatchStatus # "idle" => alert # NoObject

\* C29 witness: a drone has arrived at the alert ('on_scene') and the
\* operator has just dispatched another one: 'en_route' again.
C29_Witness ==
  /\ lastOp.op = "handleDispatch" /\ lastOp.via = "ui"
  /\ marks.settles >= 1
  /\ dispatchStatus = "en_route" /\ ~droneArrived
  /\ respondingDroneId = lastOp.droneId

\* C30: at most one settle timeout is pending at any time, and the clearing
\* runs once per alert, while that alert is still active: a settle callback
\* never runs when its alert has already been cleared, and never sets a drone
\* that is back 'patrolling' or 'idle' to 'returning' again.
C30_OneSettlePerAlert ==
  /\ [](Cardinality(settleTimers) <= 1)
  /\ [][settleTimers' # settleTimers /\ lastOp'.op = "settle" =>
          /\ alert # NoObject
          /\ \A i \in 1..Len(drones) :
               drones[i].status \in {"patrolling", "idle"} =>
                 drones'[i].status # "returning"]_vars

=============================================================================
